---------------------------- MODULE Spec2Model ----------------------------
(***************************************************************************)
(* A model of read_log_file (src/main.py): main() parses its arguments,   *)
(* parse_logs() reads the log files line by line into the raw list `logs` *)
(* and the insertion-ordered mapping `endpoint_stats`, and one of the two *)
(* report generators turns the matching view into rows that are printed.  *)
(*                                                                         *)
(* A Python value that may be None is a sequence of length 0 or 1: <<>>   *)
(* is None (or a key that is missing from the JSON object), <<v>> is v.   *)
(* An insertion-ordered dict is the sequence of its items in insertion    *)
(* order.                                                                  *)
(***************************************************************************)
EXTENDS Integers, Sequences, FiniteSets

VARIABLES
    report_kind,     \* args.report
    report_date,     \* report_date of main(): <<>> or <<day>>
    pc,              \* where the run is
    file_index,      \* number of files whose read loop has ended
    handle,          \* the files that are open
    logs,            \* parse_logs' local list
    endpoint_stats,  \* parse_logs' local mapping
    result,          \* what parse_logs returned to main: <<>> or <<pair>>
    error,           \* the exception that left parse_logs, or "none"
    output,          \* what main printed
    consumed,        \* history: the lines json.loads decoded, in read order
    contributed      \* history: the positions in `consumed` whose record changed endpoint_stats

vars == <<report_kind, report_date, pc, file_index, handle, logs,
          endpoint_stats, result, error, output, consumed, contributed>>

-----------------------------------------------------------------------------
(* Bounds *)

\* the most lines read in one run, over all files
MaxLines == 2

\* the most paths given with --files; how many there are shows when the loop over
\* file_paths ends
MaxFiles == 2

-----------------------------------------------------------------------------
(* Python values *)

None == <<>>

Some(v) == <<v>>

Opt(S) == {None} \cup {Some(v) : v \in S}

\* '@timestamp' values: [day, time of day]; two on one day, one on the next
Noon22 == [day |-> 22, time |-> 0]

Later22 == [day |-> 22, time |-> 5]

Noon23 == [day |-> 23, time |-> 0]

Urls == {"", "/api/v1/resource", "/api/v1/another_resource"}

ResponseTimes == {0, 250}

UserAgents == {"Mozilla/5.0", "Chrome/91.0", "Unknown"}

\* --date values
FilterDates == {None, Some(22)}

ReportKinds == {"average", "user-agent", "other"}

\* the decoded lines the model reads: every combination of the fields
\* parse_logs looks at, and every user agent on one later request of day 22
ParseEntries ==
    [timestamp : Opt({Noon22, Noon23}), url : Opt(Urls), response_time : Opt(ResponseTimes),
     http_user_agent : {None}]

AgentEntries ==
    [timestamp : {Some(Later22)}, url : {Some("/api/v1/resource")},
     response_time : {Some(250)}, http_user_agent : Opt(UserAgents) \ {None}]

Entries == ParseEntries \cup AgentEntries

-----------------------------------------------------------------------------
(* parse_logs *)

\* datetime.fromisoformat(log_entry['@timestamp']).date() if '@timestamp' in log_entry else None
LogDate(log_entry) ==
    IF log_entry.timestamp # None THEN Some(log_entry.timestamp[1].day) ELSE None

\* mutant of Skipped: `if report_date and log_date and log_date != report_date`,
\* a record without a timestamp passes the filter
SkippedOnlyIfDated(log_entry, date) ==
    date # None /\ LogDate(log_entry) # None /\ LogDate(log_entry) # date

\* if report_date and log_date != report_date: continue
Skipped(log_entry, date) ==
    date # None /\ LogDate(log_entry) # date

\* truth value of log_entry.get('url'): None and '' are false
Truthy(endpoint) ==
    endpoint # None /\ endpoint # Some("")

\* if endpoint and response_time is not None
Contributes(log_entry) ==
    Truthy(log_entry.url) /\ log_entry.response_time # None

HasKey(stats, endpoint) ==
    \E i \in 1..Len(stats) : stats[i].endpoint = endpoint

\* endpoint_stats[endpoint] of the defaultdict: a missing key is inserted with the default
GetItem(stats, endpoint) ==
    IF HasKey(stats, endpoint) THEN stats
    ELSE Append(stats, [endpoint |-> endpoint, count |-> 0, total_response_time |-> 0])

\* endpoint_stats[endpoint]['count'] += 1
IncCount(stats, endpoint) ==
    LET s == GetItem(stats, endpoint)
    IN  [i \in 1..Len(s) |->
            IF s[i].endpoint = endpoint THEN [s[i] EXCEPT !.count = @ + 1] ELSE s[i]]

\* endpoint_stats[endpoint]['total_response_time'] += response_time
AddTime(stats, endpoint, response_time) ==
    LET s == GetItem(stats, endpoint)
    IN  [i \in 1..Len(s) |->
            IF s[i].endpoint = endpoint
            THEN [s[i] EXCEPT !.total_response_time = @ + response_time]
            ELSE s[i]]

\* mutant of ProcessEntry: the mapping is indexed before the test of response_time,
\* so the defaultdict inserts a zero entry for a record that adds nothing
ProcessEntryEagerKey(stats, log_entry, date) ==
    IF Skipped(log_entry, date) THEN stats
    ELSE IF Truthy(log_entry.url)
         THEN IF log_entry.response_time # None
              THEN AddTime(IncCount(stats, log_entry.url[1]), log_entry.url[1],
                           log_entry.response_time[1])
              ELSE GetItem(stats, log_entry.url[1])
         ELSE stats

\* the body of the read loop after logs.append
ProcessEntry(stats, log_entry, date) ==
    IF Skipped(log_entry, date) THEN stats
    ELSE IF Contributes(log_entry)
         THEN AddTime(IncCount(stats, log_entry.url[1]), log_entry.url[1],
                      log_entry.response_time[1])
         ELSE stats

\* logs.append(log_entry)
AppendLog(list, log_entry) ==
    Append(list, log_entry)

\* the endpoint_stats parse_logs builds from the decoded lines `entries`
RECURSIVE ParseStats(_, _)
ParseStats(entries, date) ==
    IF entries = <<>> THEN <<>>
    ELSE ProcessEntry(ParseStats(SubSeq(entries, 1, Len(entries) - 1), date),
                      entries[Len(entries)], date)

-----------------------------------------------------------------------------
(* The report generators *)

RECURSIVE Gcd(_, _)
Gcd(a, b) ==
    IF b = 0 THEN a ELSE Gcd(b, a % b)

\* a / b of two numbers, b > 0: the quotient as a fraction in lowest terms
TrueDiv(a, b) ==
    LET g == Gcd(a, b)
    IN  [num |-> a \div g, den |-> b \div g]

\* the number 0
Zero == [num |-> 0, den |-> 1]

\* mutant of AverageOf: the total is reported, the division is left out
AverageOfUndivided(stats_item) ==
    TrueDiv(stats_item.total_response_time, 1)

\* stats['total_response_time'] / stats['count'] if stats['count'] > 0 else 0
AverageOf(stats_item) ==
    IF stats_item.count > 0
    THEN TrueDiv(stats_item.total_response_time, stats_item.count)
    ELSE Zero

\* AverageResponseTimeReport.generate: report_data
AverageGenerate(stats) ==
    [i \in 1..Len(stats) |-> <<stats[i].endpoint, stats[i].count, AverageOf(stats[i])>>]

\* mutant of UserAgentOf: another default than 'Unknown'
UserAgentOfDash(log_entry) ==
    IF log_entry.http_user_agent # None THEN log_entry.http_user_agent[1] ELSE "-"

\* log_entry.get('http_user_agent', 'Unknown')
UserAgentOf(log_entry) ==
    IF log_entry.http_user_agent # None THEN log_entry.http_user_agent[1] ELSE "Unknown"

\* user_agent_stats[user_agent] += 1 on the defaultdict(int)
CountAgent(agent_stats, user_agent) ==
    IF \E i \in 1..Len(agent_stats) : agent_stats[i].agent = user_agent
    THEN [i \in 1..Len(agent_stats) |->
            IF agent_stats[i].agent = user_agent
            THEN [agent_stats[i] EXCEPT !.count = @ + 1]
            ELSE agent_stats[i]]
    ELSE Append(agent_stats, [agent |-> user_agent, count |-> 1])

\* the loop of UserAgentReport.generate over logs
RECURSIVE UserAgentStats(_)
UserAgentStats(list) ==
    IF list = <<>> THEN <<>>
    ELSE CountAgent(UserAgentStats(SubSeq(list, 1, Len(list) - 1)),
                    UserAgentOf(list[Len(list)]))

\* UserAgentReport.generate: report_data
UserAgentGenerate(list) ==
    LET user_agent_stats == UserAgentStats(list)
    IN  [i \in 1..Len(user_agent_stats) |->
            <<user_agent_stats[i].agent, user_agent_stats[i].count>>]

AverageTitle == "Average Response Time Report"

UserAgentTitle == "User Agent Report"

AverageHeaders == <<"Endpoint", "Request Count", "Average Response Time">>

UserAgentHeaders == <<"User-Agent", "Count">>

UnsupportedMessage == "Currently, only 'average' and 'user-agent' report types are supported."

\* print(title); print("=" * len(title)); print(tabulate(report_data, headers=...))
Printed(title, headers, report_data) ==
    << [line |-> "title", text |-> title],
       [line |-> "underline", of |-> title],
       [line |-> "table", headers |-> headers, rows |-> report_data] >>

-----------------------------------------------------------------------------
(* The run of main() *)

Init ==
    /\ report_kind \in ReportKinds
    /\ report_date \in FilterDates
    /\ pc = "loop"
    /\ file_index = 0
    /\ handle = {}
    /\ logs = <<>>
    /\ endpoint_stats = <<>>
    /\ result = None
    /\ error = "none"
    /\ output = <<>>
    /\ consumed = <<>>
    /\ contributed = {}

\* with open(file_path, 'r') as f: the file opens
OpenFile ==
    /\ pc = "loop"
    /\ file_index < MaxFiles
    /\ handle' = handle \cup {file_index + 1}
    /\ pc' = "reading"
    /\ UNCHANGED <<report_kind, report_date, file_index, logs, endpoint_stats,
                   result, error, output, consumed, contributed>>

\* open() raises: the exception leaves parse_logs and main
OpenFail ==
    /\ pc = "loop"
    /\ file_index < MaxFiles
    /\ error' = "IOError"
    /\ pc' = "raised"
    /\ UNCHANGED <<report_kind, report_date, file_index, handle, logs,
                   endpoint_stats, result, output, consumed, contributed>>

\* mutant of ReadLine: logs.append comes after the date filter's `continue`
ReadLineAppendAfterFilter ==
    /\ pc = "reading"
    /\ Len(consumed) < MaxLines
    /\ \E log_entry \in Entries :
          /\ logs' = IF Skipped(log_entry, report_date) THEN logs
                     ELSE AppendLog(logs, log_entry)
          /\ endpoint_stats' = ProcessEntry(endpoint_stats, log_entry, report_date)
          /\ consumed' = Append(consumed, log_entry)
    /\ contributed' = IF endpoint_stats' # endpoint_stats
                      THEN contributed \cup {Len(consumed')}
                      ELSE contributed
    /\ UNCHANGED <<report_kind, report_date, pc, file_index, handle, result,
                   error, output>>

\* one turn of `for line in f` on a line that json.loads decodes
ReadLine ==
    /\ pc = "reading"
    /\ Len(consumed) < MaxLines
    /\ \E log_entry \in Entries :
          /\ logs' = AppendLog(logs, log_entry)
          /\ endpoint_stats' = ProcessEntry(endpoint_stats, log_entry, report_date)
          /\ consumed' = Append(consumed, log_entry)
    /\ contributed' = IF endpoint_stats' # endpoint_stats
                      THEN contributed \cup {Len(consumed')}
                      ELSE contributed
    /\ UNCHANGED <<report_kind, report_date, pc, file_index, handle, result,
                   error, output>>

\* mutant of DecodeFail: the malformed line is caught, noted and skipped
DecodeFailSkipLine ==
    /\ pc = "reading"
    /\ error' = "DecodeError"
    /\ UNCHANGED <<report_kind, report_date, pc, file_index, handle, logs, endpoint_stats,
                   result, output, consumed, contributed>>

\* mutant of DecodeFail: f = open(...) without `with`, the exception leaves f open
DecodeFailLeakHandle ==
    /\ pc = "reading"
    /\ error' = "DecodeError"
    /\ pc' = "raised"
    /\ UNCHANGED <<report_kind, report_date, file_index, handle, logs, endpoint_stats,
                   result, output, consumed, contributed>>

\* json.loads(line) raises on a malformed line: the with block closes f,
\* the exception leaves parse_logs and main
DecodeFail ==
    /\ pc = "reading"
    /\ error' = "DecodeError"
    /\ handle' = handle \ {file_index + 1}
    /\ pc' = "raised"
    /\ UNCHANGED <<report_kind, report_date, file_index, logs, endpoint_stats,
                   result, output, consumed, contributed>>

\* reading the next line raises OSError: the with block closes f,
\* the exception leaves parse_logs and main
ReadFail ==
    /\ pc = "reading"
    /\ error' = "IOError"
    /\ handle' = handle \ {file_index + 1}
    /\ pc' = "raised"
    /\ UNCHANGED <<report_kind, report_date, file_index, logs, endpoint_stats,
                   result, output, consumed, contributed>>

\* the file is exhausted: the with block closes f, the outer loop goes on
EndOfFile ==
    /\ pc = "reading"
    /\ handle' = handle \ {file_index + 1}
    /\ file_index' = file_index + 1
    /\ pc' = "loop"
    /\ UNCHANGED <<report_kind, report_date, logs, endpoint_stats, result,
                   error, output, consumed, contributed>>

\* file_paths is exhausted (--files takes one path or more): return endpoint_stats, logs
Return ==
    /\ pc = "loop"
    /\ file_index >= 1
    /\ result' = Some([endpoint_stats |-> endpoint_stats, logs |-> logs])
    /\ pc' = "returned"
    /\ UNCHANGED <<report_kind, report_date, file_index, handle, logs,
                   endpoint_stats, error, output, consumed, contributed>>

\* args.report == 'average': generate from endpoint_stats and print
ReportAverage ==
    /\ pc = "returned"
    /\ report_kind = "average"
    /\ output' = Printed(AverageTitle, AverageHeaders,
                         AverageGenerate(result[1].endpoint_stats))
    /\ pc' = "done"
    /\ UNCHANGED <<report_kind, report_date, file_index, handle, logs,
                   endpoint_stats, result, error, consumed, contributed>>

\* args.report == 'user-agent': generate from logs and print
ReportUserAgent ==
    /\ pc = "returned"
    /\ report_kind = "user-agent"
    /\ output' = Printed(UserAgentTitle, UserAgentHeaders, UserAgentGenerate(result[1].logs))
    /\ pc' = "done"
    /\ UNCHANGED <<report_kind, report_date, file_index, handle, logs,
                   endpoint_stats, result, error, consumed, contributed>>

\* any other args.report: print the message and return
ReportUnsupported ==
    /\ pc = "returned"
    /\ report_kind \notin {"average", "user-agent"}
    /\ output' = << [line |-> "message", text |-> UnsupportedMessage] >>
    /\ pc' = "done"
    /\ UNCHANGED <<report_kind, report_date, file_index, handle, logs,
                   endpoint_stats, result, error, consumed, contributed>>

Next ==
    \/ OpenFile
    \/ OpenFail
    \/ ReadLine
    \/ DecodeFail
    \/ ReadFail
    \/ EndOfFile
    \/ Return
    \/ ReportAverage
    \/ ReportUserAgent
    \/ ReportUnsupported

Spec == Init /\ [][Next]_vars

TypeOK ==
    /\ pc \in {"loop", "reading", "returned", "raised", "done"}
    /\ file_index \in 0..MaxFiles
    /\ handle \subseteq 1..MaxFiles
    /\ error \in {"none", "IOError", "DecodeError"}

-----------------------------------------------------------------------------
(* What the properties speak of, stated without the operators above *)

Supported == {"average", "user-agent"}

\* parse_logs has returned to main
Returned == result # None

\* the record's date is the filter's date, or there is no filter
InFilter(log_entry) ==
    \/ report_date = None
    \/ /\ log_entry.timestamp # None
       /\ log_entry.timestamp[1].day = report_date[1]

\* the positions of the records of `list` that have url e, a response time and
\* the filter's date
Matching(list, e) ==
    {k \in 1..Len(list) :
        /\ list[k].url = Some(e)
        /\ list[k].response_time # None
        /\ InFilter(list[k])}

\* the sum of the response times of the records of `list` at the positions in S
RECURSIVE SumTimes(_, _)
SumTimes(list, S) ==
    IF S = {} THEN 0
    ELSE LET k == CHOOSE x \in S : TRUE
         IN  list[k].response_time[1] + SumTimes(list, S \ {k})

\* the count and the total stored for key e; a missing key reads as zero
StoredCount(stats, e) ==
    IF \E i \in 1..Len(stats) : stats[i].endpoint = e
    THEN (CHOOSE item \in {stats[i] : i \in 1..Len(stats)} : item.endpoint = e).count
    ELSE 0

StoredTotal(stats, e) ==
    IF \E i \in 1..Len(stats) : stats[i].endpoint = e
    THEN (CHOOSE item \in {stats[i] : i \in 1..Len(stats)} : item.endpoint = e).total_response_time
    ELSE 0

\* the client agent a record is counted under
AgentValue(log_entry) ==
    IF log_entry.http_user_agent = None THEN "Unknown" ELSE log_entry.http_user_agent[1]

\* the first position of `list` whose record has agent a
FirstSeen(list, a) ==
    CHOOSE k \in 1..Len(list) :
        /\ AgentValue(list[k]) = a
        /\ \A j \in 1..(k - 1) : AgentValue(list[j]) # a

RECURSIVE SumCounts(_)
SumCounts(rows) ==
    IF rows = <<>> THEN 0 ELSE rows[1][2] + SumCounts(Tail(rows))

\* q is the number a / b
IsQuotient(q, a, b) ==
    q.den > 0 /\ q.num * b = a * q.den

-----------------------------------------------------------------------------
(* C1 *)

\* C1: after parse_logs returns, for every endpoint e the stored count is the
\* number of raw records with url e, a present response time and the filter's
\* date (any date without a filter), and the stored total is the sum of their
\* response times; this for every present url, the empty string included, and
\* for response time 0.
C1_CountMatchesRecords ==
    Returned =>
        \A e \in Urls :
            /\ StoredCount(result[1].endpoint_stats, e)
                  = Cardinality(Matching(result[1].logs, e))
            /\ StoredTotal(result[1].endpoint_stats, e)
                  = SumTimes(result[1].logs, Matching(result[1].logs, e))

\* the same for the urls that are not the empty string
CountMatchesRecordsNonEmptyUrl ==
    Returned =>
        \A e \in Urls \ {""} :
            /\ StoredCount(result[1].endpoint_stats, e)
                  = Cardinality(Matching(result[1].logs, e))
            /\ StoredTotal(result[1].endpoint_stats, e)
                  = SumTimes(result[1].logs, Matching(result[1].logs, e))

-----------------------------------------------------------------------------
(* C2 *)

\* C2: the raw list parse_logs returns holds every decoded line exactly once, in
\* read order, and is as long as the number of decoded lines, whatever the
\* filter date; while reading, the list is the lines decoded so far.
C2_RawListIsEveryLine ==
    /\ logs = consumed
    /\ Returned =>
          /\ result[1].logs = consumed
          /\ Len(result[1].logs) = Len(consumed)

\* parse_logs returned two lines: one the date filter skipped, one without url
C2_Witness ==
    /\ Returned
    /\ report_date # None
    /\ Len(consumed) = MaxLines
    /\ \E i, j \in 1..Len(consumed) :
          /\ ~InFilter(consumed[i])
          /\ InFilter(consumed[j])
          /\ consumed[j].url = None
    /\ Len(result[1].logs) = MaxLines

-----------------------------------------------------------------------------
(* C3 *)

\* C3: a run filtered on the date every record has returns the endpoint_stats
\* of the unfiltered run over the same lines; a run filtered on a date no
\* record has returns empty endpoint_stats.
C3_DateFilterRelation ==
    (Returned /\ report_date # None) =>
        /\ (\A k \in 1..Len(consumed) :
                /\ consumed[k].timestamp # None
                /\ consumed[k].timestamp[1].day = report_date[1])
           => result[1].endpoint_stats = ParseStats(consumed, None)
        /\ (\A k \in 1..Len(consumed) :
                \/ consumed[k].timestamp = None
                \/ consumed[k].timestamp[1].day # report_date[1])
           => result[1].endpoint_stats = <<>>

\* a filtered run over two records of the filter's day, at different times,
\* that both count
C3_Witness ==
    /\ Returned
    /\ report_date # None
    /\ Len(consumed) = 2
    /\ \A k \in 1..Len(consumed) :
          /\ consumed[k].timestamp # None
          /\ consumed[k].timestamp[1].day = report_date[1]
    /\ consumed[1].timestamp # consumed[2].timestamp
    /\ Len(result[1].endpoint_stats) = 2

\* a filtered run over records none of which has the filter's day, one of them
\* without a timestamp, that would count without the filter
C3_WitnessNoMatch ==
    /\ Returned
    /\ report_date # None
    /\ Len(consumed) = 2
    /\ consumed[1].timestamp = None
    /\ consumed[2].timestamp # None
    /\ consumed[2].timestamp[1].day # report_date[1]
    /\ ParseStats(consumed, None) # <<>>
    /\ result[1].endpoint_stats = <<>>

-----------------------------------------------------------------------------
(* C4 *)

\* the statistics and the rows of test_average_response_time_report
ExampleStats ==
    << [endpoint |-> "/api/v1/resource", count |-> 2, total_response_time |-> 500],
       [endpoint |-> "/api/v1/another_resource", count |-> 1, total_response_time |-> 400] >>

ExampleRows ==
    << <<"/api/v1/resource", 2, [num |-> 250, den |-> 1]>>,
       <<"/api/v1/another_resource", 1, [num |-> 400, den |-> 1]>> >>

\* the rows and the title main printed
PrintedTitle == output[1].text

PrintedRows == output[3].rows

\* C4: the average report has the title it was given and one row (endpoint,
\* count, average) per key of endpoint_stats in insertion order, the average
\* being total / count for a positive count and 0 for count 0; the example
\* statistics give the example rows in that order.
C4_AverageReportRows ==
    /\ (pc = "done" /\ report_kind = "average") =>
          LET stats == result[1].endpoint_stats
          IN  /\ PrintedTitle = AverageTitle
              /\ Len(PrintedRows) = Len(stats)
              /\ \A i \in 1..Len(stats) :
                    /\ PrintedRows[i][1] = stats[i].endpoint
                    /\ PrintedRows[i][2] = stats[i].count
                    /\ IF stats[i].count > 0
                       THEN IsQuotient(PrintedRows[i][3], stats[i].total_response_time,
                                       stats[i].count)
                       ELSE PrintedRows[i][3] = Zero
    /\ AverageGenerate(ExampleStats) = ExampleRows
    /\ AverageGenerate(<< [endpoint |-> "/", count |-> 0, total_response_time |-> 0] >>)
          = << <<"/", 0, Zero>> >>

\* an average report of two rows in insertion order, the first with a
\* non-zero average
C4_Witness ==
    /\ pc = "done"
    /\ report_kind = "average"
    /\ Len(PrintedRows) = 2
    /\ PrintedRows[1][1] = "/api/v1/resource"
    /\ PrintedRows[2][1] = "/api/v1/another_resource"
    /\ PrintedRows[1][3].num > 0

\* an average report with a row of count 2 whose average is half the total
C4_WitnessCountTwo ==
    /\ pc = "done"
    /\ report_kind = "average"
    /\ \E i \in 1..Len(PrintedRows) :
          /\ PrintedRows[i][2] = 2
          /\ PrintedRows[i][3].num * 2 = result[1].endpoint_stats[i].total_response_time
          /\ PrintedRows[i][3].num > 0

-----------------------------------------------------------------------------
(* C5 *)

\* C5: the user-agent report has one row (agent, count) per distinct agent
\* value of the raw list, in the order the values are first met, the count
\* being the number of records with that value; a record without
\* http_user_agent counts under "Unknown"; the counts add up to the length of
\* the raw list.
C5_UserAgentReportRows ==
    (pc = "done" /\ report_kind = "user-agent") =>
        LET raw == result[1].logs
        IN  /\ PrintedTitle = UserAgentTitle
            /\ {PrintedRows[i][1] : i \in 1..Len(PrintedRows)}
                  = {AgentValue(raw[k]) : k \in 1..Len(raw)}
            /\ \A i, j \in 1..Len(PrintedRows) :
                  i < j =>
                     /\ PrintedRows[i][1] # PrintedRows[j][1]
                     /\ FirstSeen(raw, PrintedRows[i][1]) < FirstSeen(raw, PrintedRows[j][1])
            /\ \A i \in 1..Len(PrintedRows) :
                  PrintedRows[i][2]
                     = Cardinality({k \in 1..Len(raw) : AgentValue(raw[k]) = PrintedRows[i][1]})
            /\ SumCounts(PrintedRows) = Len(raw)

\* a user-agent report over a record with an agent followed by a record
\* without the field
C5_Witness ==
    /\ pc = "done"
    /\ report_kind = "user-agent"
    /\ Len(result[1].logs) = 2
    /\ result[1].logs[1].http_user_agent = Some("Chrome/91.0")
    /\ result[1].logs[2].http_user_agent = None
    /\ PrintedRows = << <<"Chrome/91.0", 1>>, <<"Unknown", 1>> >>

-----------------------------------------------------------------------------
(* C6 *)

\* C6: once opening a file or decoding a line has failed, the run has ended
\* with the error: nothing was returned or printed, and no step follows.
C6_AllOrNothing ==
    /\ error # "none" =>
          /\ pc = "raised"
          /\ result = None
          /\ output = <<>>
    /\ pc = "raised" =>
          /\ error # "none"
          /\ ~ENABLED Next
    /\ Returned => error = "none"

\* a malformed line after a record that was already counted
C6_Witness ==
    /\ pc = "raised"
    /\ error = "DecodeError"
    /\ Len(logs) >= 1
    /\ endpoint_stats # <<>>
    /\ result = None

-----------------------------------------------------------------------------
(* C7 *)

\* C7: for 'average' the rows are those of the average generator on
\* endpoint_stats, for 'user-agent' those of the agent generator on the raw
\* list; for any other kind the run ends with the message alone and no error
\* leaves it, whatever the files hold and whether or not they exist.
C7_DispatchAndCleanExit ==
    /\ (pc = "done" /\ report_kind = "average") =>
          output = Printed(AverageTitle, AverageHeaders,
                           AverageGenerate(result[1].endpoint_stats))
    /\ (pc = "done" /\ report_kind = "user-agent") =>
          output = Printed(UserAgentTitle, UserAgentHeaders,
                           UserAgentGenerate(result[1].logs))
    /\ report_kind \notin Supported =>
          /\ error = "none"
          /\ pc # "raised"
          /\ pc = "done" => output = << [line |-> "message", text |-> UnsupportedMessage] >>

\* the same without the clause on errors: what holds of an unsupported kind
\* when parse_logs returns
DispatchWhenParsed ==
    /\ (pc = "done" /\ report_kind = "average") =>
          output = Printed(AverageTitle, AverageHeaders,
                           AverageGenerate(result[1].endpoint_stats))
    /\ (pc = "done" /\ report_kind = "user-agent") =>
          output = Printed(UserAgentTitle, UserAgentHeaders,
                           UserAgentGenerate(result[1].logs))
    /\ (pc = "done" /\ report_kind \notin Supported) =>
          output = << [line |-> "message", text |-> UnsupportedMessage] >>
    /\ pc # "done" => output = <<>>

-----------------------------------------------------------------------------
(* C8 *)

\* C8: at most one file is open at any time, only while its lines are read;
\* between files, after the return and after a failure none is open.
C8_HandleDiscipline ==
    /\ Cardinality(handle) <= 1
    /\ pc = "reading" => handle = {file_index + 1}
    /\ pc # "reading" => handle = {}

\* a malformed line in the second file: both files are closed
C8_Witness ==
    /\ pc = "raised"
    /\ error = "DecodeError"
    /\ file_index = 1
    /\ handle = {}

-----------------------------------------------------------------------------
(* C9 *)

\* C9: with a filter date, a record whose date differs from it, a record
\* without a timestamp included, adds nothing to endpoint_stats and is in the
\* raw list; without a filter date, a record without a timestamp that has url
\* and a response time does add to endpoint_stats.
C9_DateFilterContribution ==
    \A k \in 1..Len(consumed) :
        /\ (report_date # None /\ ~InFilter(consumed[k])) =>
              /\ k \notin contributed
              /\ k \in 1..Len(logs)
              /\ logs[k] = consumed[k]
        /\ (/\ report_date = None
            /\ consumed[k].timestamp = None
            /\ consumed[k].url # None
            /\ consumed[k].response_time # None) =>
              k \in contributed

\* the same for records whose url is not the empty string
DateFilterContributionNonEmptyUrl ==
    \A k \in 1..Len(consumed) :
        /\ (report_date # None /\ ~InFilter(consumed[k])) =>
              /\ k \notin contributed
              /\ k \in 1..Len(logs)
              /\ logs[k] = consumed[k]
        /\ (/\ report_date = None
            /\ consumed[k].timestamp = None
            /\ consumed[k].url \notin {None, Some("")}
            /\ consumed[k].response_time # None) =>
              k \in contributed

-----------------------------------------------------------------------------
(* C10 *)

\* the positions of the records that changed the entry of key e
AddedInto(e) ==
    {k \in contributed : consumed[k].url = Some(e)}

=============================================================================
